---------------------------- MODULE Spec2Model ----------------------------
(***************************************************************************)
(* A model of the three click handlers of src/main.py                      *)
(* (split_video_at_marks, split_video_by_duration, merge_videos) and of    *)
(* the directory lister, over a shared filesystem.                         *)
(*                                                                         *)
(* Texts (what is typed into a textbox, file names) are sequences of       *)
(* one-character strings, so that split(','), float(), splitext() and      *)
(* lower() are computed rather than assumed.  The characters are ASCII.    *)
(* Numbers are IEEE binary64 floats, as Python's are: float() reads        *)
(* decimals with or without exponent and underscores, "inf", "infinity"    *)
(* and "nan", and rounds to the nearest float; + rounds the exact sum; a   *)
(* comparison with nan is false.                                           *)
(*                                                                         *)
(* The video library (VideoFileClip, subclip, concatenate_videoclips,      *)
(* write_videofile) is an external collaborator: opening and writing may   *)
(* each fail, nondeterministically; subclip and concatenate record what    *)
(* they were asked for.                                                    *)
(***************************************************************************)
EXTENDS Integers, Sequences, FiniteSets, TLC

\* ------------------------------------------------------------------ bounds
\* Longest text typed into a textbox that the single-invocation
\* specification enumerates exhaustively.
MaxLen == 3
\* Iterations after which a duration loop that makes no progress is no
\* longer followed (the code itself would go on for ever).
MaxLoop == 3
\* Clicks followed in the multi-invocation specification.
MaxCalls == 2

\* ------------------------------------------------------------- text inputs
Digits == {"0", "1", "2", "3", "4", "5", "6", "7", "8", "9"}

DigitVal(c) ==
  CASE c = "0" -> 0 [] c = "1" -> 1 [] c = "2" -> 2 [] c = "3" -> 3
    [] c = "4" -> 4 [] c = "5" -> 5 [] c = "6" -> 6 [] c = "7" -> 7
    [] c = "8" -> 8 [] c = "9" -> 9

\* The characters the exhaustive enumeration types.
Alphabet == {"1", "2", ".", "-", ",", "x"}

StringsUpTo(n) == UNION {[1..k -> Alphabet] : k \in 0..n}

\* str.split(','): the pieces between the commas, empty pieces kept.
RECURSIVE Split(_)
Split(s) ==
  IF \A k \in 1..Len(s) : s[k] # ","
  THEN <<s>>
  ELSE LET k == CHOOSE j \in 1..Len(s) :
                  s[j] = "," /\ \A h \in 1..(j - 1) : s[h] # ","
       IN <<SubSeq(s, 1, k - 1)>> \o Split(SubSeq(s, k + 1, Len(s)))

\* The whitespace float() strips from both ends: blank, tab, newline,
\* vertical tab (written as the character itself: TLA+ has no escape for
\* it), form feed, carriage return.
VerticalTab == ""

Whitespace == {" ", "\t", "\n", VerticalTab, "\f", "\r"}

Strip(t) ==
  LET inside == {k \in 1..Len(t) : t[k] \notin Whitespace}
  IN IF inside = {} THEN <<>>
     ELSE SubSeq(t, CHOOSE k \in inside : \A j \in inside : k <= j,
                    CHOOSE k \in inside : \A j \in inside : k >= j)

UpperCase ==
  <<"A", "B", "C", "D", "E", "F", "G", "H", "I", "J", "K", "L", "M",
    "N", "O", "P", "Q", "R", "S", "T", "U", "V", "W", "X", "Y", "Z">>

LowerCase ==
  <<"a", "b", "c", "d", "e", "f", "g", "h", "i", "j", "k", "l", "m",
    "n", "o", "p", "q", "r", "s", "t", "u", "v", "w", "x", "y", "z">>

\* str.lower(), and the case folding of float()'s "inf" and "nan".
lower(s) ==
  [k \in 1..Len(s) |->
     IF \E j \in 1..Len(UpperCase) : UpperCase[j] = s[k]
     THEN LowerCase[CHOOSE j \in 1..Len(UpperCase) : UpperCase[j] = s[k]]
     ELSE s[k]]

\* --------------------------------------------------------------- floats
\* A Python float (an IEEE 754 binary64).  A finite one is the number
\* (-1)^neg * m * 2^e, with m written in binary, most significant bit
\* first, odd (at most Precision bits), and <<>> for zero; e is at least
\* MinExponent and the number is below 2^MaxExponent.  -0.0 and 0.0
\* compare equal everywhere in the handlers and are one value here.  The
\* infinities have a sign only, nan has nothing.
Precision == 53
MinExponent == -1074
MaxExponent == 1024

Zero == [kind |-> "finite", neg |-> FALSE, m |-> <<>>, e |-> 0]

Inf(neg) == [kind |-> "inf", neg |-> neg, m |-> <<>>, e |-> 0]

NaN == [kind |-> "nan", neg |-> FALSE, m |-> <<>>, e |-> 0]

Zeros(k) == [j \in 1..k |-> 0]

StripLeading(b) ==
  IF \A k \in 1..Len(b) : b[k] = 0 THEN <<>>
  ELSE SubSeq(b, CHOOSE k \in 1..Len(b) :
                   b[k] = 1 /\ \A j \in 1..(k - 1) : b[j] = 0, Len(b))

\* Trailing zero bits of a non-zero binary numeral.
TrailingZeros(b) ==
  Len(b) - (CHOOSE k \in 1..Len(b) :
              b[k] = 1 /\ \A j \in (k + 1)..Len(b) : b[j] = 0)

RECURSIVE NatBits(_)
NatBits(n) == IF n = 0 THEN <<>> ELSE NatBits(n \div 2) \o <<n % 2>>

\* Arithmetic on binary numerals goes through their digits in base 2^15,
\* least significant first.
Base == 2 ^ 15

\* Bit p (0 the least significant) of a binary numeral.
BitOf(b, p) == IF p < Len(b) THEN b[Len(b) - p] ELSE 0

RECURSIVE LimbFrom(_, _, _)
LimbFrom(b, p, n) ==
  IF n = 0 THEN 0 ELSE BitOf(b, p) + 2 * LimbFrom(b, p + 1, n - 1)

ToLimbs(b) == [j \in 1..((Len(b) + 14) \div 15) |-> LimbFrom(b, 15 * (j - 1), 15)]

ToBits(ls) ==
  StripLeading([k \in 1..(15 * Len(ls)) |->
                  LET p == 15 * Len(ls) - k
                  IN (ls[p \div 15 + 1] \div (2 ^ (p % 15))) % 2])

LimbAt(ls, k) == IF k <= Len(ls) THEN ls[k] ELSE 0

\* Without the zero digits at the most significant end.
TrimLimbs(ls) ==
  IF \A k \in 1..Len(ls) : ls[k] = 0 THEN <<>>
  ELSE SubSeq(ls, 1, CHOOSE k \in 1..Len(ls) :
                       ls[k] # 0 /\ \A j \in (k + 1)..Len(ls) : ls[j] = 0)

\* The operations below go through the digits lo..hi by halves: the lower
\* half first where a carry or borrow goes up, the upper half first where
\* a remainder goes down.

\* Digits lo..hi of a + b + carry, and the carry out.
RECURSIVE AddRange(_, _, _, _, _)
AddRange(a, b, lo, hi, carry) ==
  IF lo > hi THEN [q |-> <<>>, c |-> carry]
  ELSE IF lo = hi
  THEN [q |-> <<(LimbAt(a, lo) + LimbAt(b, lo) + carry) % Base>>,
        c |-> (LimbAt(a, lo) + LimbAt(b, lo) + carry) \div Base]
  ELSE LET mid == (lo + hi) \div 2
           low == AddRange(a, b, lo, mid, carry)
           high == AddRange(a, b, mid + 1, hi, low.c)
       IN [q |-> low.q \o high.q, c |-> high.c]

AddLimbs(a, b) ==
  LET s == AddRange(a, b, 1, IF Len(a) > Len(b) THEN Len(a) ELSE Len(b), 0)
  IN IF s.c = 0 THEN s.q ELSE Append(s.q, s.c)

\* a + b on binary numerals.
AddBits(a, b) == ToBits(AddLimbs(ToLimbs(a), ToLimbs(b)))

\* Digits lo..hi of a - b - borrow, and the borrow out.
RECURSIVE SubRange(_, _, _, _, _)
SubRange(a, b, lo, hi, borrow) ==
  IF lo > hi THEN [q |-> <<>>, c |-> borrow]
  ELSE IF lo = hi
  THEN [q |-> <<(LimbAt(a, lo) - LimbAt(b, lo) - borrow + Base) % Base>>,
        c |-> IF LimbAt(a, lo) - LimbAt(b, lo) - borrow < 0 THEN 1 ELSE 0]
  ELSE LET mid == (lo + hi) \div 2
           low == SubRange(a, b, lo, mid, borrow)
           high == SubRange(a, b, mid + 1, hi, low.c)
       IN [q |-> low.q \o high.q, c |-> high.c]

\* a - b on binary numerals, for a >= b.
SubBits(a, b) ==
  ToBits(SubRange(ToLimbs(a), ToLimbs(b), 1, Len(ToLimbs(a)), 0).q)

\* a < b on binary numerals without leading zeros.
LessBits(a, b) ==
  \/ Len(a) < Len(b)
  \/ /\ Len(a) = Len(b)
     /\ \E k \in 1..Len(a) :
          a[k] < b[k] /\ \A j \in 1..(k - 1) : a[j] = b[j]

ShiftLeft(b, k) == IF b = <<>> THEN <<>> ELSE b \o Zeros(k)

\* Digits lo..hi of f * ls + carry, and the carry out, for a factor f of
\* at most 10^4.
RECURSIVE TimesRange(_, _, _, _, _)
TimesRange(ls, f, lo, hi, carry) ==
  IF lo > hi THEN [q |-> <<>>, c |-> carry]
  ELSE IF lo = hi
  THEN [q |-> <<(f * ls[lo] + carry) % Base>>,
        c |-> (f * ls[lo] + carry) \div Base]
  ELSE LET mid == (lo + hi) \div 2
           low == TimesRange(ls, f, lo, mid, carry)
           high == TimesRange(ls, f, mid + 1, hi, low.c)
       IN [q |-> low.q \o high.q, c |-> high.c]

TimesPlus(ls, f, carry) ==
  LET t == TimesRange(ls, f, 1, Len(ls), carry)
  IN IF t.c = 0 THEN t.q ELSE Append(t.q, t.c)

\* ls * 10^k, at most four decimal places at a time.
RECURSIVE TimesPowTen(_, _)
TimesPowTen(ls, k) ==
  IF k = 0 THEN ls
  ELSE IF k <= 4 THEN TimesPlus(ls, 10 ^ k, 0)
  ELSE LET half == TimesPowTen(ls, k \div 2)
       IN IF half = <<>> THEN <<>> ELSE TimesPowTen(half, k - k \div 2)

\* The value of a run of decimal digits, in base-2^15 digits.
RECURSIVE DigitsLimbs(_)
DigitsLimbs(ds) ==
  IF ds = <<>> THEN <<>>
  ELSE IF Len(ds) = 1 THEN TrimLimbs(<<DigitVal(ds[1])>>)
  ELSE LET half == Len(ds) \div 2
       IN AddLimbs(TimesPowTen(DigitsLimbs(SubSeq(ds, 1, half)), Len(ds) - half),
                   DigitsLimbs(SubSeq(ds, half + 1, Len(ds))))

Reverse(s) == [k \in 1..Len(s) |-> s[Len(s) + 1 - k]]

\* Digits hi..lo (the most significant first) of the quotient of ls, with
\* r carried in from above, by a divisor f of at most 10^4, and the
\* remainder.
RECURSIVE DivRange(_, _, _, _, _)
DivRange(ls, f, lo, hi, r) ==
  IF lo > hi THEN [q |-> <<>>, r |-> r]
  ELSE IF lo = hi
  THEN [q |-> <<(r * Base + ls[lo]) \div f>>, r |-> (r * Base + ls[lo]) % f]
  ELSE LET mid == (lo + hi) \div 2
           high == DivRange(ls, f, mid + 1, hi, r)
           low == DivRange(ls, f, lo, mid, high.r)
       IN [q |-> high.q \o low.q, r |-> low.r]

\* floor(ls / 10^k), and whether anything was cut off.
RECURSIVE DivPowTenLimbs(_, _)
DivPowTenLimbs(ls, k) ==
  IF k = 0 THEN [q |-> ls, inexact |-> FALSE]
  ELSE IF k <= 4
  THEN LET d == DivRange(ls, 10 ^ k, 1, Len(ls), 0)
       IN [q |-> TrimLimbs(Reverse(d.q)), inexact |-> d.r # 0]
  ELSE LET first == DivPowTenLimbs(ls, k \div 2)
           rest == DivPowTenLimbs(first.q, k - k \div 2)
       IN IF first.q = <<>> THEN first
          ELSE [q |-> rest.q, inexact |-> first.inexact \/ rest.inexact]

DivPowTen(b, k) ==
  LET d == DivPowTenLimbs(ToLimbs(b), k)
  IN [q |-> ToBits(d.q), inexact |-> d.inexact]

\* The number m * 2^e exactly, m any binary numeral.
Dyadic(neg, m, e) ==
  LET b == StripLeading(m)
  IN IF b = <<>> THEN Zero
     ELSE [kind |-> "finite", neg |-> neg,
           m |-> SubSeq(b, 1, Len(b) - TrailingZeros(b)),
           e |-> e + TrailingZeros(b)]

\* The float m * 2^e, m of at most Precision bits: infinite from
\* 2^MaxExponent on.
Finite(neg, m, e) ==
  LET x == Dyadic(neg, m, e)
  IN IF Len(x.m) + x.e > MaxExponent THEN Inf(neg) ELSE x

\* The float nearest to m * 2^e (plus a little, when `more`), ties to even.
\* The bits kept are Precision, or fewer when the number is so small that
\* its last bit would be below 2^MinExponent.
RoundNearestEven(neg, m, e, more) ==
  LET b == StripLeading(m)
      room == Len(b) + e - MinExponent
      keep == IF room < Precision THEN room ELSE Precision
  IN IF Len(b) <= keep THEN Finite(neg, b, e)
     ELSE IF keep < 0 THEN Zero
     ELSE LET top == SubSeq(b, 1, keep)
              cut == SubSeq(b, keep + 1, Len(b))
              sticky == more \/ \E k \in 2..Len(cut) : cut[k] = 1
              odd == keep > 0 /\ top[keep] = 1
              up == cut[1] = 1 /\ (sticky \/ odd)
          IN Finite(neg, IF up THEN AddBits(top, <<1>>) ELSE top, e + Len(cut))

\* x + y and x < y on dyadic numbers, exactly.
Aligned(x, y) ==
  LET e == IF x.e < y.e THEN x.e ELSE y.e
  IN [a |-> ShiftLeft(x.m, x.e - e), b |-> ShiftLeft(y.m, y.e - e), e |-> e]

MagLess(x, y) == LessBits(Aligned(x, y).a, Aligned(x, y).b)

ExactSum(x, y) ==
  LET al == Aligned(x, y)
  IN IF x.neg = y.neg \/ x.m = <<>> \/ y.m = <<>>
     THEN Dyadic(IF x.m = <<>> THEN y.neg ELSE x.neg, AddBits(al.a, al.b), al.e)
     ELSE IF LessBits(al.a, al.b) THEN Dyadic(y.neg, SubBits(al.b, al.a), al.e)
     ELSE Dyadic(x.neg, SubBits(al.a, al.b), al.e)

\* Python's x < y on floats: false when either is nan.
Less(x, y) ==
  IF x.kind = "nan" \/ y.kind = "nan" THEN FALSE
  ELSE IF x.kind = "inf" THEN x.neg /\ ~(y.kind = "inf" /\ y.neg)
  ELSE IF y.kind = "inf" THEN ~y.neg
  ELSE IF x.neg # y.neg THEN x.neg
  ELSE IF x.neg THEN MagLess(y, x) ELSE MagLess(x, y)

\* Python's x + y on floats: the exact sum, rounded; nan when either is
\* nan or the two are opposite infinities.
Plus(x, y) ==
  IF x.kind = "nan" \/ y.kind = "nan" THEN NaN
  ELSE IF x.kind = "inf"
  THEN (IF y.kind = "inf" /\ y.neg # x.neg THEN NaN ELSE x)
  ELSE IF y.kind = "inf" THEN y
  ELSE LET t == ExactSum(x, y) IN RoundNearestEven(t.neg, t.m, t.e, FALSE)

\* An integer number of seconds as a float.
Num(n) == Dyadic(n < 0, NatBits(IF n < 0 THEN 0 - n ELSE n), 0)

\* The bits cut off below the binary point when a decimal with k places is
\* converted: enough that the quotient always has more than Precision + 2
\* bits (10^k is below 2^((10 * k + 2) div 3)).
GuardBits(k) == Precision + 3 + (10 * k + 2) \div 3

\* A decimal exponent from which the result is decided whatever the digits
\* of a text shorter than that are: larger written exponents count as this.
ExponentCap == 100000

\* A run of decimal digits without its leading zeros, without its
\* trailing zeros.
DropLeadingZeros(ds) ==
  IF \A k \in 1..Len(ds) : ds[k] = "0" THEN <<>>
  ELSE SubSeq(ds, CHOOSE k \in 1..Len(ds) :
                    ds[k] # "0" /\ \A j \in 1..(k - 1) : ds[j] = "0", Len(ds))

DropTrailingZeros(ds) ==
  IF \A k \in 1..Len(ds) : ds[k] = "0" THEN <<>>
  ELSE SubSeq(ds, 1, CHOOSE k \in 1..Len(ds) :
                       ds[k] # "0" /\ \A j \in (k + 1)..Len(ds) : ds[j] = "0")

RECURSIVE NatValue(_)
NatValue(ds) ==
  IF ds = <<>> THEN 0
  ELSE 10 * NatValue(SubSeq(ds, 1, Len(ds) - 1)) + DigitVal(ds[Len(ds)])

\* The written exponent, up to ExponentCap.
ExponentValue(ds) ==
  IF Len(DropLeadingZeros(ds)) > 6 THEN ExponentCap
  ELSE IF NatValue(DropLeadingZeros(ds)) > ExponentCap THEN ExponentCap
  ELSE NatValue(DropLeadingZeros(ds))

\* The float nearest to ds * 10^x, ds a run of decimal digits.  A number
\* of at least 10^309 is beyond every float (infinity), one below 10^-324
\* is nearer to zero than to any other float.
DecimalValue(neg, ds, x) ==
  LET sig == DropTrailingZeros(DropLeadingZeros(ds))
      xs == x + (Len(DropLeadingZeros(ds)) - Len(sig))
      scaled == DivPowTen(ShiftLeft(ToBits(DigitsLimbs(sig)), GuardBits(0 - xs)),
                          0 - xs)
  IN IF sig = <<>> THEN Zero
     ELSE IF Len(sig) + xs > 309 THEN Inf(neg)
     ELSE IF Len(sig) + xs < -323 THEN Zero
     ELSE IF xs >= 0
     THEN RoundNearestEven(neg, ToBits(TimesPowTen(DigitsLimbs(sig), xs)), 0, FALSE)
     ELSE RoundNearestEven(neg, scaled.q, 0 - GuardBits(0 - xs), scaled.inexact)

\* A mantissa: digits with at most one decimal point and at least one digit.
IsMantissa(s) ==
  /\ \A k \in 1..Len(s) : s[k] \in Digits \cup {"."}
  /\ Cardinality({k \in 1..Len(s) : s[k] = "."}) <= 1
  /\ \E k \in 1..Len(s) : s[k] \in Digits

\* An exponent: an optional sign and at least one digit.
IsExponent(s) ==
  LET ds == IF s # <<>> /\ Head(s) \in {"+", "-"} THEN Tail(s) ELSE s
  IN ds # <<>> /\ \A k \in 1..Len(ds) : ds[k] \in Digits

\* An underscore is allowed only between two digits.
UnderscoresBetweenDigits(s) ==
  \A k \in 1..Len(s) :
    s[k] = "_" => /\ k > 1 /\ s[k - 1] \in Digits
                  /\ k < Len(s) /\ s[k + 1] \in Digits

\* float(token): [ok |-> FALSE] stands for ValueError.  The underscores
\* between digits are dropped and the whitespace around is stripped; what
\* is left is an optional sign and then "inf", "infinity" or "nan" in any
\* case, or a mantissa with an optional exponent (e or E).  The value is
\* the float nearest to the decimal written.
float(tok) ==
  LET t == Strip(SelectSeq(tok, LAMBDA c : c # "_"))
      signed == t # <<>> /\ Head(t) \in {"+", "-"}
      neg == signed /\ Head(t) = "-"
      body == IF signed THEN Tail(t) ELSE t
      es == {k \in 1..Len(body) : body[k] \in {"e", "E"}}
      at == IF es = {} THEN Len(body) + 1 ELSE CHOOSE k \in es : TRUE
      mant == SubSeq(body, 1, at - 1)
      expo == SubSeq(body, at + 1, Len(body))
      point == {k \in 1..Len(mant) : mant[k] = "."}
      places == IF point = {} THEN 0 ELSE Len(mant) - (CHOOSE k \in point : TRUE)
      mag == ExponentValue(SelectSeq(expo, LAMBDA c : c \in Digits))
      x == IF expo # <<>> /\ Head(expo) = "-" THEN 0 - mag ELSE mag
  IN IF ~UnderscoresBetweenDigits(tok) THEN [ok |-> FALSE, val |-> Zero]
     ELSE IF lower(body) \in {<<"i", "n", "f">>,
                             <<"i", "n", "f", "i", "n", "i", "t", "y">>}
     THEN [ok |-> TRUE, val |-> Inf(neg)]
     ELSE IF lower(body) = <<"n", "a", "n">>
     THEN [ok |-> TRUE, val |-> NaN]
     ELSE IF /\ Cardinality(es) <= 1
             /\ IsMantissa(mant)
             /\ es # {} => IsExponent(expo)
     THEN [ok |-> TRUE,
           val |-> DecimalValue(neg, SelectSeq(mant, LAMBDA c : c # "."),
                                x - places)]
     ELSE [ok |-> FALSE, val |-> Zero]

\* sorted(), as CPython sorts a list.  The list is cut, left to right,
\* into runs: the run found at the place reached (ascending, or strictly
\* descending and then reversed), made up to minrun elements by binary
\* insertion when it is shorter.  The runs are merged as they are found
\* (which ones, the powers of the run boundaries decide) and at the end.
\* A list of fewer than 64 elements is one run.  The only comparison is <,
\* so that the result for a list with nan depends on where the nan stands.
MIN_GALLOP == 7

\* a[i], a[i : i + n], and a after a[i : i + len(xs)] = xs; places are
\* counted from 0.
At(a, i) == a[i + 1]

Slice(a, i, n) == SubSeq(a, i + 1, i + n)

Put(a, i, xs) ==
  [k \in 1..Len(a) |-> IF i < k /\ k <= i + Len(xs) THEN xs[k - i] ELSE a[k]]

\* merge_compute_minrun: n shifted right until it is below 64, plus one if
\* any bit shifted off was set.
merge_compute_minrun(n) ==
  IF n < 64 THEN n
  ELSE LET s == CHOOSE k \in 1..30 : (n \div 2 ^ k) \in 32..63
       IN (n \div 2 ^ s) + (IF n % 2 ^ s = 0 THEN 0 ELSE 1)

\* count_run: the length of the run at the start of s, descending or not.
count_run(s) ==
  IF Len(s) = 1 THEN [descending |-> FALSE, n |-> 1]
  ELSE LET descending == Less(s[2], s[1])
       IN [descending |-> descending,
           n |-> CHOOSE n \in 2..Len(s) :
                   /\ \A k \in 3..n : Less(s[k], s[k - 1]) = descending
                   /\ n < Len(s) => Less(s[n + 1], s[n]) # descending]

\* The place of pivot among s[l], ..., s[r - 1].
RECURSIVE Bisect(_, _, _, _)
Bisect(s, pivot, l, r) ==
  IF l >= r THEN l
  ELSE LET p == l + (r - l) \div 2
       IN IF Less(pivot, s[p]) THEN Bisect(s, pivot, l, p)
          ELSE Bisect(s, pivot, p + 1, r)

\* binarysort: s[1 .. start - 1] is sorted; the rest is inserted into it.
RECURSIVE binarysort(_, _)
binarysort(s, start) ==
  IF start > Len(s) THEN s
  ELSE LET l == Bisect(s, s[start], 1, start)
       IN binarysort(SubSeq(s, 1, l - 1) \o <<s[start]>>
                       \o SubSeq(s, l, start - 1)
                       \o SubSeq(s, start + 1, Len(s)),
                     start + 1)

\* The galloping loop of gallop_left and gallop_right: the offset is
\* doubled (plus one) as long as it is below maxofs and go holds at it.
RECURSIVE GallopFrom(_, _, _, _)
GallopFrom(go, lastofs, ofs, maxofs) ==
  IF ofs < maxofs /\ go[ofs] THEN GallopFrom(go, ofs, 2 * ofs + 1, maxofs)
  ELSE [lastofs |-> lastofs, ofs |-> IF ofs > maxofs THEN maxofs ELSE ofs]

\* The binary search that ends both: up[m] moves the lower end past m.
RECURSIVE GallopSearch(_, _, _)
GallopSearch(up, lastofs, ofs) ==
  IF lastofs < ofs
  THEN LET m == lastofs + (ofs - lastofs) \div 2
       IN IF up[m] THEN GallopSearch(up, m + 1, ofs)
          ELSE GallopSearch(up, lastofs, m)
  ELSE ofs

\* gallop_left: where key belongs in the n elements of a, left of any equal
\* element, looking first near hint.
gallop_left(key, a, n, hint) ==
  LET less == [k \in 0..(n - 1) |-> Less(At(a, k), key)]
      right == GallopFrom([o \in 1..(n - hint - 1) |-> less[hint + o]],
                          0, 1, n - hint)
      left == GallopFrom([o \in 1..hint |-> ~less[hint - o]], 0, 1, hint + 1)
      lastofs == IF less[hint] THEN right.lastofs + hint ELSE hint - left.ofs
      ofs == IF less[hint] THEN right.ofs + hint ELSE hint - left.lastofs
  IN GallopSearch(less, lastofs + 1, ofs)

\* gallop_right: the same, right of any equal element.
gallop_right(key, a, n, hint) ==
  LET greater == [k \in 0..(n - 1) |-> Less(key, At(a, k))]
      left == GallopFrom([o \in 1..hint |-> greater[hint - o]], 0, 1, hint + 1)
      right == GallopFrom([o \in 1..(n - hint - 1) |-> ~greater[hint + o]],
                          0, 1, n - hint)
      lastofs == IF greater[hint] THEN hint - left.ofs
                 ELSE right.lastofs + hint
      ofs == IF greater[hint] THEN hint - left.lastofs ELSE right.ofs + hint
  IN GallopSearch([k \in 0..(n - 1) |-> ~greater[k]], lastofs + 1, ofs)

\* merge_lo and merge_hi merge two adjacent runs A and B of the list a in
\* place; st holds their locals.  merge_lo copies A to t and fills the
\* list from the left (pa is a place in t, pb in a); merge_hi copies B to t
\* and fills the list from the right (pa is a place in a, pb in t).
\* Succeed of merge_lo: what is left of A is copied back.
lo_succeed(st) ==
  [st EXCEPT !.pc = "done",
             !.a = IF st.na > 0
                   THEN Put(st.a, st.dest, Slice(st.t, st.pa, st.na))
                   ELSE st.a]

\* CopyB of merge_lo: what is left of B is moved down, the last element of
\* A goes after it.
lo_copy_b(st) ==
  [st EXCEPT !.pc = "done",
             !.a = Put(Put(st.a, st.dest, Slice(st.a, st.pb, st.nb)),
                       st.dest + st.nb, <<At(st.t, st.pa)>>)]

\* *dest++ = *ssb++ and *dest++ = *ssa++ of merge_lo.
lo_take_b(st) ==
  [st EXCEPT !.a = Put(st.a, st.dest, <<At(st.a, st.pb)>>),
             !.dest = @ + 1, !.pb = @ + 1, !.nb = @ - 1]

lo_take_a(st) ==
  [st EXCEPT !.a = Put(st.a, st.dest, <<At(st.t, st.pa)>>),
             !.dest = @ + 1, !.pa = @ + 1, !.na = @ - 1]

\* The loop is left for the galloping one.
StartGallop(st, pc) == [st EXCEPT !.pc = pc, !.min_gallop = @ + 1]

\* The galloping loop is left: min_gallop is raised, the counts start anew.
EndGallop(st, pc) ==
  [st EXCEPT !.pc = pc, !.min_gallop = @ + 1, !.acount = 0, !.bcount = 0]

\* One iteration of the element-by-element loop of merge_lo.
lo_straight(st) ==
  IF Less(At(st.a, st.pb), At(st.t, st.pa))
  THEN LET s == [lo_take_b(st) EXCEPT !.bcount = @ + 1, !.acount = 0]
       IN IF s.nb = 0 THEN lo_succeed(s)
          ELSE IF s.bcount >= s.min_gallop THEN StartGallop(s, "lo_gallop")
          ELSE s
  ELSE LET s == [lo_take_a(st) EXCEPT !.acount = @ + 1, !.bcount = 0]
       IN IF s.na = 1 THEN lo_copy_b(s)
          ELSE IF s.acount >= s.min_gallop THEN StartGallop(s, "lo_gallop")
          ELSE s

\* The galloping loop of merge_lo, first half of an iteration: the k
\* elements of A that go before the next of B are copied, then that one.
lo_gallop_a(st, k) ==
  LET s == [st EXCEPT !.min_gallop = IF @ > 1 THEN @ - 1 ELSE @,
                      !.acount = k,
                      !.a = Put(st.a, st.dest, Slice(st.t, st.pa, k)),
                      !.dest = @ + k, !.pa = @ + k, !.na = @ - k]
  IN IF k > 0 /\ s.na = 1 THEN lo_copy_b(s)
     ELSE IF k > 0 /\ s.na = 0 THEN lo_succeed(s)
     ELSE IF lo_take_b(s).nb = 0 THEN lo_succeed(lo_take_b(s))
     ELSE [lo_take_b(s) EXCEPT !.pc = "lo_gallop_b"]

\* Second half: the j elements of B that go before the next of A are
\* copied, then that one; the loop goes on while either count is at least
\* MIN_GALLOP.
lo_gallop_b(st, j) ==
  LET s == [st EXCEPT !.bcount = j,
                      !.a = Put(st.a, st.dest, Slice(st.a, st.pb, j)),
                      !.dest = @ + j, !.pb = @ + j, !.nb = @ - j]
  IN IF j > 0 /\ s.nb = 0 THEN lo_succeed(s)
     ELSE IF lo_take_a(s).na = 1 THEN lo_copy_b(lo_take_a(s))
     ELSE IF s.acount >= MIN_GALLOP \/ s.bcount >= MIN_GALLOP
     THEN [lo_take_a(s) EXCEPT !.pc = "lo_gallop"]
     ELSE EndGallop(lo_take_a(s), "lo_straight")

\* Succeed of merge_hi: what is left of B is copied back.
hi_succeed(st) ==
  [st EXCEPT !.pc = "done",
             !.a = IF st.nb > 0
                   THEN Put(st.a, st.dest - (st.nb - 1), Slice(st.t, 0, st.nb))
                   ELSE st.a]

\* CopyA of merge_hi: what is left of A is moved up, the first element of
\* B goes before it.
hi_copy_a(st) ==
  [st EXCEPT !.pc = "done",
             !.a = Put(Put(st.a, st.dest + 1 - st.na,
                           Slice(st.a, st.pa + 1 - st.na, st.na)),
                       st.dest - st.na, <<At(st.t, st.pb)>>)]

\* *dest-- = *ssa-- and *dest-- = *ssb-- of merge_hi.
hi_take_a(st) ==
  [st EXCEPT !.a = Put(st.a, st.dest, <<At(st.a, st.pa)>>),
             !.dest = @ - 1, !.pa = @ - 1, !.na = @ - 1]

hi_take_b(st) ==
  [st EXCEPT !.a = Put(st.a, st.dest, <<At(st.t, st.pb)>>),
             !.dest = @ - 1, !.pb = @ - 1, !.nb = @ - 1]

\* One iteration of the element-by-element loop of merge_hi.
hi_straight(st) ==
  IF Less(At(st.t, st.pb), At(st.a, st.pa))
  THEN LET s == [hi_take_a(st) EXCEPT !.acount = @ + 1, !.bcount = 0]
       IN IF s.na = 0 THEN hi_succeed(s)
          ELSE IF s.acount >= s.min_gallop THEN StartGallop(s, "hi_gallop")
          ELSE s
  ELSE LET s == [hi_take_b(st) EXCEPT !.bcount = @ + 1, !.acount = 0]
       IN IF s.nb = 1 THEN hi_copy_a(s)
          ELSE IF s.bcount >= s.min_gallop THEN StartGallop(s, "hi_gallop")
          ELSE s

\* The galloping loop of merge_hi, first half of an iteration: the k
\* elements of A that go after the last of B are moved, then that one.
hi_gallop_a(st, k) ==
  LET s == [st EXCEPT !.min_gallop = IF @ > 1 THEN @ - 1 ELSE @,
                      !.acount = k,
                      !.a = Put(st.a, st.dest - k + 1,
                                Slice(st.a, st.pa - k + 1, k)),
                      !.dest = @ - k, !.pa = @ - k, !.na = @ - k]
  IN IF k > 0 /\ s.na = 0 THEN hi_succeed(s)
     ELSE IF hi_take_b(s).nb = 1 THEN hi_copy_a(hi_take_b(s))
     ELSE [hi_take_b(s) EXCEPT !.pc = "hi_gallop_b"]

\* Second half: the j elements of B that go after the last of A are
\* copied, then that one.
hi_gallop_b(st, j) ==
  LET s == [st EXCEPT !.bcount = j,
                      !.a = Put(st.a, st.dest - j + 1,
                                Slice(st.t, st.pb - j + 1, j)),
                      !.dest = @ - j, !.pb = @ - j, !.nb = @ - j]
  IN IF j > 0 /\ s.nb = 1 THEN hi_copy_a(s)
     ELSE IF j > 0 /\ s.nb = 0 THEN hi_succeed(s)
     ELSE IF hi_take_a(s).na = 0 THEN hi_succeed(hi_take_a(s))
     ELSE IF s.acount >= MIN_GALLOP \/ s.bcount >= MIN_GALLOP
     THEN [hi_take_a(s) EXCEPT !.pc = "hi_gallop"]
     ELSE EndGallop(hi_take_a(s), "hi_straight")

\* One iteration (or half of one) of whichever loop the merge is in, with
\* the calls of gallop_right and gallop_left that the galloping loops make.
merge_step(st) ==
  CASE st.pc = "lo_straight" -> lo_straight(st)
    [] st.pc = "lo_gallop" ->
         lo_gallop_a(st, gallop_right(At(st.a, st.pb),
                                      Slice(st.t, st.pa, st.na), st.na, 0))
    [] st.pc = "lo_gallop_b" ->
         lo_gallop_b(st, gallop_left(At(st.t, st.pa),
                                     Slice(st.a, st.pb, st.nb), st.nb, 0))
    [] st.pc = "hi_straight" -> hi_straight(st)
    [] st.pc = "hi_gallop" ->
         hi_gallop_a(st, st.na - gallop_right(At(st.t, st.pb),
                                              Slice(st.a, st.basea, st.na),
                                              st.na, st.na - 1))
    [] st.pc = "hi_gallop_b" ->
         hi_gallop_b(st, st.nb - gallop_left(At(st.a, st.pa),
                                             Slice(st.t, 0, st.nb),
                                             st.nb, st.nb - 1))
    [] st.pc = "done" -> st

\* The loops run to the end of the merge: up to 2^k iterations, as twice
\* up to 2^(k-1).
RECURSIVE merge_run(_, _)
merge_run(st, k) ==
  IF st.pc = "done" THEN st
  ELSE IF k = 0 THEN merge_step(st)
  ELSE LET half == merge_run(st, k - 1)
       IN IF half.pc = "done" THEN half ELSE merge_run(half, k - 1)

\* merge_lo and merge_hi: the start, then the loops.  Every iteration
\* places an element: Len(NatBits(n)) halvings are enough for n elements.
\* ms is the merge state: the list, the pending runs (where each starts,
\* its length, the power of the boundary after it), min_gallop, and the
\* locals of the merge under way.
merge_lo(ms, pa, na, pb, nb) ==
  LET st == lo_take_b([ms EXCEPT !.pc = "lo_straight",
                                 !.t = Slice(ms.a, pa, na),
                                 !.basea = pa, !.dest = pa, !.pa = 0,
                                 !.pb = pb, !.na = na, !.nb = nb,
                                 !.acount = 0, !.bcount = 0])
  IN merge_run(IF st.nb = 0 THEN lo_succeed(st)
               ELSE IF st.na = 1 THEN lo_copy_b(st)
               ELSE st,
               Len(NatBits(na + nb)))

merge_hi(ms, pa, na, pb, nb) ==
  LET st == hi_take_a([ms EXCEPT !.pc = "hi_straight",
                                 !.t = Slice(ms.a, pb, nb),
                                 !.basea = pa, !.dest = pb + nb - 1,
                                 !.pa = pa + na - 1, !.pb = nb - 1,
                                 !.na = na, !.nb = nb,
                                 !.acount = 0, !.bcount = 0])
  IN merge_run(IF st.na = 0 THEN hi_succeed(st)
               ELSE IF st.nb = 1 THEN hi_copy_a(st)
               ELSE st,
               Len(NatBits(na + nb)))

\* The end of merge_at: the k first elements of A are in place already,
\* and so are those of B after the first nb; the rest is merged, the
\* shorter run in the temporary array.
merge_trimmed(ms, ssa, na, ssb, k, nb) ==
  IF na - k = 0 \/ nb <= 0 THEN ms
  ELSE IF na - k <= nb THEN merge_lo(ms, ssa + k, na - k, ssb, nb)
  ELSE merge_hi(ms, ssa + k, na - k, ssb, nb)

\* merge_at: the runs i and i + 1 of the pending ones (counted from 0) are
\* merged.
merge_at(ms, i) ==
  LET p == ms.pending
      ssa == p[i + 1].base
      na == p[i + 1].len
      ssb == p[i + 2].base
      nb == p[i + 2].len
      joined == [p[i + 1] EXCEPT !.len = na + nb]
      pending == SubSeq(p, 1, i) \o <<joined>>
                   \o (IF i = Len(p) - 3 THEN <<p[i + 3]>> ELSE <<>>)
  IN merge_trimmed([ms EXCEPT !.pending = pending], ssa, na, ssb,
                   gallop_right(At(ms.a, ssb), Slice(ms.a, ssa, na), na, 0),
                   gallop_left(At(ms.a, ssa + na - 1), Slice(ms.a, ssb, nb),
                               nb, nb - 1))

\* The loop of powerloop: the power of the boundary between two adjacent
\* runs in a list of n, from a = 2 * s1 + n1 and b = a + n1 + n2 for the
\* run of n1 elements at s1 and the run of n2 elements after it.
RECURSIVE powerloop(_, _, _, _)
powerloop(a, b, n, result) ==
  IF a >= n THEN powerloop(2 * (a - n), 2 * (b - n), n, result + 1)
  ELSE IF b >= n THEN result + 1
  ELSE powerloop(2 * a, 2 * b, n, result + 1)

\* The while loop of found_new_run and the assignment after it: the two
\* last runs are merged as long as the boundary between them has a higher
\* power, then the last one gets the power.
RECURSIVE merge_above(_, _)
merge_above(ms, power) ==
  IF Len(ms.pending) > 1 /\ ms.pending[Len(ms.pending) - 1].power > power
  THEN merge_above(merge_at(ms, Len(ms.pending) - 2), power)
  ELSE [ms EXCEPT !.pending[Len(ms.pending)].power = power]

\* found_new_run: a run of n2 elements was found after the pending ones.
found_new_run(ms, n2) ==
  IF ms.pending = <<>> THEN ms
  ELSE LET top == ms.pending[Len(ms.pending)]
       IN merge_above(ms, powerloop(2 * top.base + top.len,
                                    2 * top.base + top.len + top.len + n2,
                                    Len(ms.a), 0))

\* merge_force_collapse: the pending runs are merged until one is left.
RECURSIVE merge_force_collapse(_)
merge_force_collapse(ms) ==
  IF Len(ms.pending) > 1
  THEN LET n == Len(ms.pending) - 2
       IN merge_force_collapse(
            merge_at(ms, IF n > 0 /\ ms.pending[n].len < ms.pending[n + 2].len
                         THEN n - 1 ELSE n))
  ELSE ms

\* The do loop of list.sort, from place lo on: the next run is found,
\* reversed if descending, made up to minrun elements, and pushed.
RECURSIVE sort_runs(_, _, _)
sort_runs(ms, lo, minrun) ==
  LET nremaining == Len(ms.a) - lo
      run == count_run(Slice(ms.a, lo, nremaining))
      natural == Slice(ms.a, lo, run.n)
      force == IF nremaining <= minrun THEN nremaining ELSE minrun
      n == IF run.n < minrun THEN force ELSE run.n
      ordered == (IF run.descending THEN Reverse(natural) ELSE natural)
                   \o Slice(ms.a, lo + run.n, n - run.n)
      extended == IF run.n < minrun THEN binarysort(ordered, run.n + 1)
                  ELSE ordered
  IN IF nremaining = 0 THEN ms
     ELSE sort_runs(
            [found_new_run([ms EXCEPT !.a = Put(ms.a, lo, extended)], n)
               EXCEPT !.pending = Append(@, [base |-> lo, len |-> n,
                                             power |-> 0])],
            lo + n, minrun)

sorted(s) ==
  IF Len(s) < 2 THEN s
  ELSE merge_force_collapse(
         sort_runs([a |-> s, pending |-> <<>>, min_gallop |-> MIN_GALLOP,
                    pc |-> "done", t |-> <<>>, basea |-> 0, dest |-> 0,
                    pa |-> 0, pb |-> 0, na |-> 0, nb |-> 0,
                    acount |-> 0, bcount |-> 0],
                   0, merge_compute_minrun(Len(s)))).a

\* Python's min(a, b): a unless b is smaller.
min(a, b) == IF Less(b, a) THEN b ELSE a


\* ------------------------------------------------------------ the library
\* The uploaded files the model knows, and what the library reports as
\* each one's duration (VideoFileClip(path).duration), in seconds.
Videos == {"a.mp4", "b.mp4", "c.mp4", "d.mp4"}

\* The two of a few seconds.
ShortVideos == {"a.mp4", "b.mp4"}

video_duration(path) ==
  CASE path = "a.mp4" -> Num(3)
    [] path = "b.mp4" -> Num(2)
    [] path = "c.mp4" -> Num(90)
    [] path = "d.mp4" -> Num(100)

\* video.subclip(t_start, t_end): the excerpt asked for.
subclip(path, t_start, t_end) ==
  [src |-> path, t_start |-> t_start, t_end |-> t_end]

\* video.subclip(t_start): t_end defaults to the end of the video.
subclip_to_end(path, t_start) == subclip(path, t_start, video_duration(path))

RECURSIVE SumDurations(_)
SumDurations(paths) ==
  IF paths = <<>> THEN Zero
  ELSE Plus(SumDurations(SubSeq(paths, 1, Len(paths) - 1)),
            video_duration(paths[Len(paths)]))

\* concatenate_videoclips(clips): the clips end to end, in list order.
concatenate_videoclips(paths) ==
  [parts |-> paths, duration |-> SumDurations(paths)]

\* ---------------------------------------------------------- the filesystem
marks_dir == "split_clips_at_marks"
duration_dir == "split_clips_by_duration"
OutputDirs == {marks_dir, duration_dir}
output_path == "merged_video.mp4"

\* A directory is a function from the names of its entries (texts) to what
\* each holds: a file written by write_videofile (see Whole, Truncated,
\* Interleaved), some other file, or a sub-directory.
OtherFile == [state |-> "other"]
Directory == [state |-> "directory"]

\* os.path.isfile(os.path.join(directory, f)) for an entry f.
isfile(entries, f) == f \in DOMAIN entries /\ entries[f].state # "directory"

\* str(i) for i >= 0.
DigitChars == <<"0", "1", "2", "3", "4", "5", "6", "7", "8", "9">>

RECURSIVE str(_)
str(i) ==
  IF i < 10 THEN <<DigitChars[i + 1]>>
  ELSE str(i \div 10) \o <<DigitChars[(i % 10) + 1]>>

\* f"clip_{i}.mp4"
clip_name(i) == <<"c", "l", "i", "p", "_">> \o str(i) \o <<".", "m", "p", "4">>

video_extensions ==
  {<<".", "m", "p", "4">>, <<".", "a", "v", "i">>, <<".", "m", "o", "v">>,
   <<".", "m", "k", "v">>, <<".", "w", "e", "b", "m">>}

\* os.path.splitext(f): the name is cut at its last dot, unless that dot
\* comes before the last "/" or only dots stand between the two.
splitext(f) ==
  LET Last(c) == IF \E k \in 1..Len(f) : f[k] = c
                 THEN CHOOSE k \in 1..Len(f) :
                        f[k] = c /\ \A j \in (k + 1)..Len(f) : f[j] # c
                 ELSE 0
      sepIndex == Last("/")
      dotIndex == Last(".")
  IN IF dotIndex > sepIndex
        /\ \E k \in (sepIndex + 1)..(dotIndex - 1) : f[k] # "."
     THEN <<SubSeq(f, 1, dotIndex - 1), SubSeq(f, dotIndex, Len(f))>>
     ELSE <<f, <<>>>>

\* get_video_files_from_dir: the paths of the directory's entries that are
\* files and whose extension, in lower case, is a video extension (in no
\* particular order: a set).
get_video_files_from_dir(entries, directory) ==
  {<<directory, f>> :
     f \in {g \in DOMAIN entries :
              /\ isfile(entries, g)
              /\ lower(splitext(g)[2]) \in video_extensions}}

\* ------------------------------------------------------------------ state
Procs == {1, 2}

VARIABLES
  proc,     \* per concurrent click: position, arguments, locals, result
  dirs,     \* the output directories that exist
  files,    \* per output directory: file name -> content written
  merged,   \* <<>> or <<content of merged_video.mp4>>
  handles,  \* <<p, path, k>>: the k-th video handle of p's handler, opened
            \* on path, which nothing has closed
  ncalls,   \* clicks so far
  written   \* history: per directory, the most clips any one run wrote

vars == <<proc, dirs, files, merged, handles, ncalls, written>>

Idle ==
  [pc |-> "idle", fn |-> "none", video_path |-> "", text |-> <<>>,
   video_paths |-> <<>>, opened |-> <<>>, marks |-> <<>>, duration |-> Zero,
   clips |-> <<>>, start |-> Zero, i |-> 0, raced |-> FALSE, out |-> {}]

Click(fn, video_path, text, video_paths) ==
  [Idle EXCEPT !.pc = "called", !.fn = fn, !.video_path = video_path,
               !.text = text, !.video_paths = video_paths]

Exited == {"returned", "error", "crashed"}

NoFiles == [d \in OutputDirs |-> <<>>]

\* ------------------------------------------------- split_video_at_marks
\* The for loop over the sorted marks, from `start`.
RECURSIVE MarkClips(_, _, _)
MarkClips(path, marks, start) ==
  IF marks = <<>> THEN <<>>
  ELSE <<subclip(path, start, Head(marks))>>
         \o MarkClips(path, Tail(marks), Head(marks))

\* The trailing clip: only when the last boundary is before the end.
LastClip(path, start) ==
  IF Less(start, video_duration(path))
  THEN <<subclip_to_end(path, start)>> ELSE <<>>

\* [float(m) for m in marks.split(',')]
ParsedTokens(text) == [k \in 1..Len(Split(text)) |-> float(Split(text)[k])]

\* sorted(...) of the parsed marks.
MarksOrder(vals) == sorted(vals)

at_marks_validate(p) ==
  /\ proc[p].pc = "called" /\ proc[p].fn = "split_video_at_marks"
  /\ LET toks == ParsedTokens(proc[p].text)
     IN IF proc[p].video_path = "" \/ proc[p].text = <<>>
           \/ \E k \in 1..Len(toks) : ~toks[k].ok
        THEN proc' = [proc EXCEPT ![p].pc = "error"]
        ELSE proc' = [proc EXCEPT
                        ![p].pc = "open",
                        ![p].marks = MarksOrder([k \in 1..Len(toks) |-> toks[k].val])]
  /\ UNCHANGED <<dirs, files, merged, handles, ncalls, written>>

at_marks_build(p) ==
  /\ proc[p].pc = "build" /\ proc[p].fn = "split_video_at_marks"
  /\ LET path == proc[p].video_path
         ms == proc[p].marks
         body == MarkClips(path, ms, Zero)
         last == ms[Len(ms)]
     IN proc' = [proc EXCEPT ![p].pc = "makedirs",
                             ![p].start = last,
                             ![p].clips = body \o LastClip(path, last)]
  /\ UNCHANGED <<dirs, files, merged, handles, ncalls, written>>

\* ------------------------------------------------------ shared split steps
\* VideoFileClip(video_path) succeeds.
OpenVideo(p, fn, next) ==
  /\ proc[p].pc = "open" /\ proc[p].fn = fn
  /\ proc' = [proc EXCEPT ![p].pc = next]
  /\ handles' = handles \cup {<<p, proc[p].video_path, 1>>}
  /\ UNCHANGED <<dirs, files, merged, ncalls, written>>

\* VideoFileClip(video_path) raises: nothing catches it.
OpenVideoFails(p, fn) ==
  /\ proc[p].pc = "open" /\ proc[p].fn = fn
  /\ proc' = [proc EXCEPT ![p].pc = "crashed"]
  /\ UNCHANGED <<dirs, files, merged, handles, ncalls, written>>

\* A handler in "write" with i = k is inside its k-th write_videofile call
\* (i = Len(clips): past the last one).  The calls are not atomic and take
\* no lock, so two handlers can be inside a write of the same path at once.
Writing(q, fn, k) ==
  /\ proc[q].pc = "write" /\ proc[q].fn = fn
  /\ proc[q].i = k /\ k < Len(proc[q].clips)

\* The handlers already writing the path p is about to write.
Racers(p, fn, k, nclips) ==
  IF k < nclips THEN {q \in Procs \ {p} : Writing(q, fn, k)} ELSE {}

\* p, whose new locals are `mine`, enters its k-th write: it and everyone
\* it overlaps with on that path are marked as racing.
StartWrite(p, mine, fn, k) ==
  LET rs == Racers(p, fn, k, Len(mine.clips))
  IN [q \in Procs |->
        IF q = p THEN [mine EXCEPT !.i = k, !.raced = (rs # {})]
        ELSE IF q \in rs THEN [proc[q] EXCEPT !.raced = TRUE]
        ELSE proc[q]]

\* Variant: the output directory is emptied before each run.
Makedirs_cleared(p, fn, dir) ==
  /\ proc[p].pc = "makedirs" /\ proc[p].fn = fn
  /\ dirs' = dirs \cup {dir}
  /\ files' = [files EXCEPT ![dir] = <<>>]
  /\ proc' = StartWrite(p, [proc[p] EXCEPT !.pc = "write"], fn, 0)
  /\ UNCHANGED <<merged, handles, ncalls, written>>

\* Variant: a run waits while another run of the same handler is writing.
Makedirs_locked(p, fn, dir) ==
  /\ proc[p].pc = "makedirs" /\ proc[p].fn = fn
  /\ \A q \in Procs \ {p} : ~(proc[q].pc = "write" /\ proc[q].fn = fn)
  /\ dirs' = dirs \cup {dir}
  /\ proc' = StartWrite(p, [proc[p] EXCEPT !.pc = "write"], fn, 0)
  /\ UNCHANGED <<files, merged, handles, ncalls, written>>

\* os.makedirs(output_dir, exist_ok=True), then the first write starts.
Makedirs(p, fn, dir) ==
  /\ proc[p].pc = "makedirs" /\ proc[p].fn = fn
  /\ dirs' = dirs \cup {dir}
  /\ proc' = StartWrite(p, [proc[p] EXCEPT !.pc = "write"], fn, 0)
  /\ UNCHANGED <<files, merged, handles, ncalls, written>>

\* What write_videofile puts on disk: the whole clip, or (when the encoder
\* fails part-way) a truncated file.
Whole(data) == [data |-> data, state |-> "whole"]
Truncated(data) == [data |-> data, state |-> "truncated"]
\* What two overlapping writes of one path can leave: a mix of both.
Interleaved(data) == [data |-> data, state |-> "interleaved"]

\* What a write that returns normally can have left at its path.
WriteOutcomes(data, raced) ==
  IF raced THEN {Whole(data), Interleaved(data)} ELSE {Whole(data)}

\* What a write leaves in the directory: the file of that name is created
\* or replaced, every other entry stays.
WriteFile(entries, name, content) ==
  [f \in DOMAIN entries \cup {name} |->
     IF f = name THEN content ELSE entries[f]]

MaxOf(a, b) == IF a > b THEN a ELSE b

\* clips[i].write_videofile(os.path.join(output_dir, f"clip_{i}.mp4"))
\* succeeds: it cannot where a sub-directory has that name.
WriteClip(p, fn, dir) ==
  /\ proc[p].pc = "write" /\ proc[p].fn = fn
  /\ proc[p].i < Len(proc[p].clips)
  /\ clip_name(proc[p].i) \in DOMAIN files[dir]
       => isfile(files[dir], clip_name(proc[p].i))
  /\ \E content \in WriteOutcomes(proc[p].clips[proc[p].i + 1], proc[p].raced) :
       files' = [files EXCEPT
                   ![dir] = WriteFile(@, clip_name(proc[p].i), content)]
  /\ written' = [written EXCEPT ![dir] = MaxOf(@, proc[p].i + 1)]
  /\ proc' = StartWrite(p, proc[p], fn, proc[p].i + 1)
  /\ UNCHANGED <<dirs, merged, handles, ncalls>>

\* Variant: a failed write removes what is in the directory.
FailedWriteOutcomes_cleanup(entries, name, data) == {<<>>}

\* What a write that raises can leave behind: the directory as it was (the
\* encoder never started), or a truncated file of that name.  Nothing the
\* run wrote earlier is removed: the handler has no except or finally.
FailedWriteOutcomes(entries, name, data) ==
  IF name \in DOMAIN entries /\ ~isfile(entries, name) THEN {entries}
  ELSE {entries, WriteFile(entries, name, Truncated(data))}

\* write_videofile raises while writing clip i: nothing catches it.
WriteClipFails(p, fn, dir) ==
  /\ proc[p].pc = "write" /\ proc[p].fn = fn
  /\ proc[p].i < Len(proc[p].clips)
  /\ \E left \in FailedWriteOutcomes(files[dir], clip_name(proc[p].i),
                                     proc[p].clips[proc[p].i + 1]) :
       /\ files' = [files EXCEPT ![dir] = left]
       /\ written' = [written EXCEPT
                        ![dir] = IF isfile(left, clip_name(proc[p].i))
                                 THEN MaxOf(@, proc[p].i + 1) ELSE @]
  /\ proc' = [proc EXCEPT ![p].pc = "crashed"]
  /\ UNCHANGED <<dirs, merged, handles, ncalls>>

\* return get_video_files_from_dir(output_dir)
ReturnListing(p, fn, dir) ==
  /\ proc[p].pc = "write" /\ proc[p].fn = fn
  /\ proc[p].i = Len(proc[p].clips)
  /\ proc' = [proc EXCEPT ![p].pc = "returned",
                          ![p].out = get_video_files_from_dir(files[dir], dir)]
  /\ UNCHANGED <<dirs, files, merged, handles, ncalls, written>>

at_marks_open(p) == OpenVideo(p, "split_video_at_marks", "build")
at_marks_open_fails(p) == OpenVideoFails(p, "split_video_at_marks")
at_marks_makedirs(p) == Makedirs(p, "split_video_at_marks", marks_dir)
at_marks_write(p) == WriteClip(p, "split_video_at_marks", marks_dir)
at_marks_write_fails(p) == WriteClipFails(p, "split_video_at_marks", marks_dir)
at_marks_return(p) == ReturnListing(p, "split_video_at_marks", marks_dir)


\* ---------------------------------------------- split_video_by_duration
\* Variant: the output directory is created before the input is validated.
by_duration_validate_makedirs_first(p) ==
  /\ proc[p].pc = "called" /\ proc[p].fn = "split_video_by_duration"
  /\ IF proc[p].video_path = "" \/ proc[p].text = <<>>
        \/ ~float(proc[p].text).ok
     THEN proc' = [proc EXCEPT ![p].pc = "error"]
     ELSE proc' = [proc EXCEPT ![p].pc = "open",
                               ![p].duration = float(proc[p].text).val]
  /\ dirs' = dirs \cup {duration_dir}
  /\ UNCHANGED <<files, merged, handles, ncalls, written>>

by_duration_validate(p) ==
  /\ proc[p].pc = "called" /\ proc[p].fn = "split_video_by_duration"
  /\ IF proc[p].video_path = "" \/ proc[p].text = <<>>
        \/ ~float(proc[p].text).ok
     THEN proc' = [proc EXCEPT ![p].pc = "error"]
     ELSE proc' = [proc EXCEPT ![p].pc = "open",
                               ![p].duration = float(proc[p].text).val]
  /\ UNCHANGED <<dirs, files, merged, handles, ncalls, written>>

by_duration_open(p) == OpenVideo(p, "split_video_by_duration", "loop")
by_duration_open_fails(p) == OpenVideoFails(p, "split_video_by_duration")

\* while start < total_duration: the test.
LoopGuard(start, total_duration) == Less(start, total_duration)

\* end = min(start + duration, total_duration)
SegmentEnd(start, duration, total_duration) ==
  min(Plus(start, duration), total_duration)

\* One iteration of the while loop.  A loop that makes no progress is
\* followed for MaxLoop iterations only.
by_duration_loop(p) ==
  /\ proc[p].pc = "loop"
  /\ LoopGuard(proc[p].start, video_duration(proc[p].video_path))
  /\ Less(Zero, proc[p].duration) \/ Len(proc[p].clips) < MaxLoop
  /\ LET end == SegmentEnd(proc[p].start, proc[p].duration,
                           video_duration(proc[p].video_path))
     IN proc' = [proc EXCEPT
                   ![p].clips = Append(@, subclip(proc[p].video_path,
                                                  proc[p].start, end)),
                   ![p].start = end]
  /\ UNCHANGED <<dirs, files, merged, handles, ncalls, written>>

\* The loop test fails: on to the output directory.
by_duration_loop_exit(p) ==
  /\ proc[p].pc = "loop"
  /\ ~LoopGuard(proc[p].start, video_duration(proc[p].video_path))
  /\ proc' = [proc EXCEPT ![p].pc = "makedirs"]
  /\ UNCHANGED <<dirs, files, merged, handles, ncalls, written>>

by_duration_makedirs(p) == Makedirs(p, "split_video_by_duration", duration_dir)
by_duration_write(p) == WriteClip(p, "split_video_by_duration", duration_dir)
by_duration_write_fails(p) ==
  WriteClipFails(p, "split_video_by_duration", duration_dir)
by_duration_return(p) ==
  ReturnListing(p, "split_video_by_duration", duration_dir)

\* ------------------------------------------------------------ merge_videos
merge_validate(p) ==
  /\ proc[p].pc = "called" /\ proc[p].fn = "merge_videos"
  /\ IF proc[p].video_paths = <<>>
     THEN proc' = [proc EXCEPT ![p].pc = "error"]
     ELSE proc' = [proc EXCEPT ![p].pc = "open"]
  /\ UNCHANGED <<dirs, files, merged, handles, ncalls, written>>

\* Variant: the clips are concatenated last first.
MergeOrder_reversed(clips) ==
  [k \in 1..Len(clips) |-> clips[Len(clips) + 1 - k]]

\* The order in which the clips are handed to concatenate_videoclips.
MergeOrder(clips) == clips

\* clips = [VideoFileClip(path) for path in video_paths]: the next path is
\* opened.
merge_open(p) ==
  /\ proc[p].pc = "open" /\ proc[p].fn = "merge_videos"
  /\ Len(proc[p].opened) < Len(proc[p].video_paths)
  /\ LET path == proc[p].video_paths[Len(proc[p].opened) + 1]
     IN /\ handles' = handles \cup {<<p, path, Len(proc[p].opened) + 1>>}
        /\ proc' = [proc EXCEPT ![p].opened = Append(@, path)]
  /\ UNCHANGED <<dirs, files, merged, ncalls, written>>

\* VideoFileClip(path) raises on the next path: the ones opened before it
\* stay open.
merge_open_fails(p) ==
  /\ proc[p].pc = "open" /\ proc[p].fn = "merge_videos"
  /\ Len(proc[p].opened) < Len(proc[p].video_paths)
  /\ proc' = [proc EXCEPT ![p].pc = "crashed"]
  /\ UNCHANGED <<dirs, files, merged, handles, ncalls, written>>

\* final_clip = concatenate_videoclips(clips), every path being open; then
\* the write starts.
merge_concatenate(p) ==
  /\ proc[p].pc = "open" /\ proc[p].fn = "merge_videos"
  /\ Len(proc[p].opened) = Len(proc[p].video_paths)
  /\ proc' = StartWrite(p, [proc[p] EXCEPT
                               !.pc = "write",
                               !.clips = <<concatenate_videoclips(
                                             MergeOrder(proc[p].opened))>>],
                         "merge_videos", 0)
  /\ UNCHANGED <<dirs, files, merged, handles, ncalls, written>>

\* final_clip.write_videofile(output_path) succeeds; return output_path.
merge_write(p) ==
  /\ proc[p].pc = "write" /\ proc[p].fn = "merge_videos"
  /\ \E content \in WriteOutcomes(proc[p].clips[1], proc[p].raced) :
       merged' = <<content>>
  /\ proc' = [proc EXCEPT ![p].pc = "returned", ![p].out = {output_path}]
  /\ UNCHANGED <<dirs, files, handles, ncalls, written>>

\* final_clip.write_videofile(output_path) raises.
merge_write_fails(p) ==
  /\ proc[p].pc = "write" /\ proc[p].fn = "merge_videos"
  /\ merged' \in {merged, <<Truncated(proc[p].clips[1])>>}
  /\ proc' = [proc EXCEPT ![p].pc = "crashed"]
  /\ UNCHANGED <<dirs, files, handles, ncalls, written>>

\* ------------------------------------------------------------ the clicks
\* Typed text, one character per element.
T_2 == <<"2">>
T_10_30_60 == <<"1", "0", ",", "3", "0", ",", "6", "0">>
T_30_10 == <<"3", "0", ",", "1", "0">>
T_40 == <<"4", "0">>

\* The clicks the multi-invocation specification draws from: splits with
\* different numbers of segments on different videos, merges of one and of
\* two files, and a click that is rejected.
ClickInputs ==
  {Click("split_video_at_marks", "a.mp4", <<"2", ",", "1">>, <<>>),
   Click("split_video_at_marks", "b.mp4", <<"1">>, <<>>)}
  \cup {Click("split_video_by_duration", "a.mp4", T_2, <<>>),
        Click("split_video_by_duration", "b.mp4", T_2, <<>>)}
  \cup {Click("merge_videos", "", <<>>, ps) :
          ps \in {<<>>, <<"a.mp4">>, <<"a.mp4", "b.mp4">>}}

\* A button is clicked while p has no handler running.
Call(p) ==
  /\ proc[p].pc \in {"idle"} \cup Exited
  /\ ncalls < MaxCalls
  /\ ncalls' = ncalls + 1
  /\ \E c \in ClickInputs : proc' = [proc EXCEPT ![p] = c]
  /\ UNCHANGED <<dirs, files, merged, handles, written>>

Step(p) ==
  \/ at_marks_validate(p) \/ at_marks_open(p) \/ at_marks_open_fails(p)
  \/ at_marks_build(p) \/ at_marks_makedirs(p) \/ at_marks_write(p)
  \/ at_marks_write_fails(p) \/ at_marks_return(p)
  \/ by_duration_validate(p) \/ by_duration_open(p)
  \/ by_duration_open_fails(p) \/ by_duration_loop(p)
  \/ by_duration_loop_exit(p) \/ by_duration_makedirs(p)
  \/ by_duration_write(p) \/ by_duration_write_fails(p)
  \/ by_duration_return(p)
  \/ merge_validate(p) \/ merge_open(p) \/ merge_open_fails(p)
  \/ merge_concatenate(p) \/ merge_write(p) \/ merge_write_fails(p)

\* ---------------------------------------------------- the specifications
\* The running application: clicks arrive on two sessions and their
\* handlers interleave over one filesystem.
Init ==
  /\ proc = [p \in Procs |-> Idle]
  /\ dirs = {}
  /\ files = NoFiles
  /\ merged = <<>>
  /\ handles = {}
  /\ ncalls = 0
  /\ written = [d \in OutputDirs |-> 0]

Next == \E p \in Procs : Call(p) \/ Step(p)

Spec == Init /\ [][Next]_vars

\* Texts beyond the short ones: blanks and a sign, zero, a list of
\* decimals, nan and the infinities, exponents, underscores, the vertical
\* tab, nan among marks, and two that are no numbers.
ScenarioTexts ==
  {<<" ", "+", "2", " ">>,
   <<"0">>,
   <<"1", ".", "5", ",", ".", "5">>,
   <<"n", "a", "n">>,
   <<"i", "n", "f">>,
   <<"-", "I", "n", "f", "i", "n", "i", "t", "y">>,
   <<"1", "e", "3">>,
   <<"5", "E", "-", "1">>,
   <<"1", "_", "0">>,
   <<"\t", "1", "\n">>,
   <<VerticalTab, "1", VerticalTab>>,
   <<"1", ",", "n", "a", "n">>,
   <<"n", "a", "n", ",", "1">>,
   <<"2", ",", "N", "a", "N", ",", "1">>,
   <<"1", "e">>,
   <<"1", "_", "_", "0">>}

\* One invocation, alone: on the short videos for every text of at most
\* MaxLen characters and for the texts above, on the long videos for the
\* texts of the documented scenarios.
OnceTexts == StringsUpTo(MaxLen) \cup ScenarioTexts

MaxFiles == 2

OnceInputs ==
  {Click(fn, v, t, <<>>) :
     fn \in {"split_video_at_marks", "split_video_by_duration"},
     v \in ShortVideos \cup {""}, t \in OnceTexts}
  \cup {Click("split_video_at_marks", "c.mp4", t, <<>>) :
          t \in {T_10_30_60, T_30_10, <<"1", "0", ",", "3", "0">>}}
  \cup {Click("split_video_by_duration", "d.mp4", T_40, <<>>)}
  \cup {Click("merge_videos", "", <<>>, ps) :
          ps \in UNION {[1..k -> Videos] : k \in 0..MaxFiles}}

\* The filesystem and the other session as an earlier session left them:
\* untouched; or after session 2 split a.mp4 at "2,1", split it by "1" and
\* merged b.mp4; or with entries in the split directories that no handler
\* wrote.
UsedClips ==
  [f \in {clip_name(j) : j \in 0..2} |->
     LET j == CHOOSE k \in 0..2 : clip_name(k) = f
     IN Whole(subclip("a.mp4", Num(j), Num(j + 1)))]

\* A video file with its extension in upper case, a file that is no video,
\* and a sub-directory named like a clip.
ForeignEntries ==
  (<<"c", "l", "i", "p", "_", "0", ".", "M", "P", "4">> :> OtherFile)
    @@ (<<"n", "o", "t", "e", "s", ".", "t", "x", "t">> :> OtherFile)
    @@ (clip_name(1) :> Directory)

Fresh ==
  [other |-> Idle, dirs |-> {}, files |-> NoFiles, merged |-> <<>>,
   handles |-> {}, ncalls |-> 1, written |-> [d \in OutputDirs |-> 0]]

Used ==
  [other |-> [Click("merge_videos", "", <<>>, <<"b.mp4">>) EXCEPT
                !.pc = "returned",
                !.opened = <<"b.mp4">>,
                !.clips = <<concatenate_videoclips(<<"b.mp4">>)>>,
                !.out = {output_path}],
   dirs |-> OutputDirs,
   files |-> [d \in OutputDirs |-> UsedClips],
   merged |-> <<Whole(concatenate_videoclips(<<"b.mp4">>))>>,
   handles |-> {<<2, "a.mp4", 1>>, <<2, "b.mp4", 1>>},
   ncalls |-> 4,
   written |-> [d \in OutputDirs |-> 3]]

Foreign ==
  [other |-> Idle, dirs |-> OutputDirs,
   files |-> [d \in OutputDirs |-> ForeignEntries], merged |-> <<>>,
   handles |-> {}, ncalls |-> 1, written |-> [d \in OutputDirs |-> 0]]

Earlier == {Fresh, Used, Foreign}

\* Session 1 has just been clicked with c; the rest is as e left it.
Clicked(c, e) ==
  /\ proc = [p \in Procs |-> IF p = 1 THEN c ELSE e.other]
  /\ dirs = e.dirs
  /\ files = e.files
  /\ merged = e.merged
  /\ handles = e.handles
  /\ ncalls = e.ncalls
  /\ written = e.written

InitOnce == \E c \in OnceInputs, e \in Earlier : Clicked(c, e)

NextOnce == Step(1)

SpecOnce == InitOnce /\ [][NextOnce]_vars

\* One split by duration, alone, on a fresh filesystem, for every text of
\* at most MaxLen characters without a comma.  The handler runs on a worker
\* thread that keeps running: a step that stays possible is taken.
DurationTexts ==
  {t \in OnceTexts : \A k \in 1..Len(t) : t[k] # ","}

InitDuration ==
  \/ \E v \in ShortVideos \cup {""}, t \in DurationTexts :
       Clicked(Click("split_video_by_duration", v, t, <<>>), Fresh)
  \/ Clicked(Click("split_video_by_duration", "d.mp4", T_40, <<>>), Fresh)

NextDuration ==
  \/ by_duration_validate(1) \/ by_duration_open(1)
  \/ by_duration_open_fails(1) \/ by_duration_loop(1)
  \/ by_duration_loop_exit(1) \/ by_duration_makedirs(1)
  \/ by_duration_write(1) \/ by_duration_write_fails(1)
  \/ by_duration_return(1)

\* NextDuration can take a step: the handler has neither exited nor been
\* left in a loop that makes no progress.
Running ==
  /\ proc[1].pc \in {"called", "open", "loop", "makedirs", "write"}
  /\ proc[1].pc = "loop" =>
       \/ ~LoopGuard(proc[1].start, video_duration(proc[1].video_path))
       \/ Less(Zero, proc[1].duration)
       \/ Len(proc[1].clips) < MaxLoop

\* Weak fairness of NextDuration, WF_vars(NextDuration), with the enabling
\* condition written out as Running.
FairDuration ==
  /\ InitDuration /\ [][NextDuration]_vars
  /\ ([]<>(~Running) \/ []<><<NextDuration>>_vars)


\* ================================================================ claims
\* Vocabulary of the claims, stated without the handlers' own helpers.
Splitters == {"split_video_at_marks", "split_video_by_duration"}

DirOf(fn) == IF fn = "split_video_at_marks" THEN marks_dir ELSE duration_dir

\* The handler has built its clip list (it is past the segmenting code).
Built(r) == r.pc \in {"makedirs", "write", "returned"}
              \/ (r.pc = "crashed" /\ r.clips # <<>>)

\* The positions of the commas of a text, and its pieces, read off directly.
Commas(text) == {k \in 1..Len(text) : text[k] = ","}

\* Digits, at least one.
IsDigits(s) == s # <<>> /\ \A k \in 1..Len(s) : s[k] \in Digits

\* Digits, at least one, with at most one decimal point among them.
IsDecimal(s) ==
  /\ \A k \in 1..Len(s) : s[k] \in Digits \cup {"."}
  /\ \E k \in 1..Len(s) : s[k] \in Digits
  /\ \A j \in 1..Len(s), k \in 1..Len(s) : s[j] = "." /\ s[k] = "." => j = k

\* A decimal, alone or followed by e or E and an optionally signed integer.
IsScientific(s) ==
  \E k \in 1..Len(s) :
    /\ IsDecimal(SubSeq(s, 1, k))
    /\ \/ k = Len(s)
       \/ /\ k + 1 < Len(s) /\ s[k + 1] \in {"e", "E"}
          /\ \/ IsDigits(SubSeq(s, k + 2, Len(s)))
             \/ s[k + 2] \in {"+", "-"} /\ IsDigits(SubSeq(s, k + 3, Len(s)))

\* One of the words inf, infinity and nan, in any mix of cases.
IsSpecial(s) ==
  \E w \in {<<{"i", "I"}, {"n", "N"}, {"f", "F"}>>,
            <<{"i", "I"}, {"n", "N"}, {"f", "F"}, {"i", "I"}, {"n", "N"},
              {"i", "I"}, {"t", "T"}, {"y", "Y"}>>,
            <<{"n", "N"}, {"a", "A"}, {"n", "N"}>>} :
    Len(s) = Len(w) /\ \A k \in 1..Len(s) : s[k] \in w[k]

\* The six ASCII blanks: space and the characters 9 to 13.
Blanks == {" ", "\t", "\n", "", "\f", "\r"}

\* What Python reads as a number: between blanks, an optional sign and then
\* a decimal in plain or scientific notation, or one of the special words;
\* single underscores may stand between two digits.
IsNumber(tok) ==
  /\ \A k \in 1..Len(tok) :
       tok[k] = "_" => /\ 1 < k /\ k < Len(tok)
                       /\ tok[k - 1] \in Digits /\ tok[k + 1] \in Digits
  /\ \E a \in 1..Len(tok), b \in 1..Len(tok) :
       /\ a <= b
       /\ \A k \in 1..(a - 1) : tok[k] \in Blanks
       /\ \A k \in (b + 1)..Len(tok) : tok[k] \in Blanks
       /\ LET s == SelectSeq(SubSeq(tok, a, b), LAMBDA c : c # "_")
              body == IF s[1] \in {"+", "-"} THEN Tail(s) ELSE s
          IN IsScientific(body) \/ IsSpecial(body)

\* x <= y; like <, false when either side is nan.
AtMost(x, y) == x.kind # "nan" /\ y.kind # "nan" /\ ~Less(y, x)

Minus(x) ==
  IF x.kind = "nan" \/ (x.kind = "finite" /\ x.m = <<>>) THEN x
  ELSE [x EXCEPT !.neg = ~x.neg]

Length(c) == ExactSum(c.t_end, Minus(c.t_start))

\* The k-th piece of a text with commas at cs (k-th in reading order).
Piece(text, k) ==
  LET cs == Commas(text)
      bounds == {0, Len(text) + 1} \cup cs
      lo == CHOOSE x \in bounds : Cardinality({y \in bounds : y < x}) = k - 1
      hi == CHOOSE x \in bounds : Cardinality({y \in bounds : y < x}) = k
  IN SubSeq(text, lo + 1, hi - 1)

NPieces(text) == Cardinality(Commas(text)) + 1

\* The marks a valid marks text names, as a bag of values by position.
MarkAt(text, k) == float(Piece(text, k)).val

\* The i-th smallest mark of a valid text (with repetitions); nan where the
\* marks have no i-th smallest, some of them being nan.
IsIthSmallest(text, i, v) ==
  /\ Cardinality({k \in 1..NPieces(text) : Less(MarkAt(text, k), v)}) < i
  /\ Cardinality({k \in 1..NPieces(text) : AtMost(MarkAt(text, k), v)}) >= i

IthSmallest(text, i) ==
  LET vs == {MarkAt(text, k) : k \in 1..NPieces(text)}
  IN IF \E v \in vs : IsIthSmallest(text, i, v)
     THEN CHOOSE v \in vs : IsIthSmallest(text, i, v)
     ELSE NaN

\* The largest of the marks that can be compared; nan when none can.
LargestMark(text) ==
  LET vs == {v \in {MarkAt(text, k) : k \in 1..NPieces(text)} : v.kind # "nan"}
  IN IF vs = {} THEN NaN ELSE CHOOSE v \in vs : \A u \in vs : AtMost(u, v)

\* The files of a directory that hold, whole, exactly the clips of r.
HoldsClips(r, n) ==
  \A j \in 0..(n - 1) :
    /\ clip_name(j) \in DOMAIN files[DirOf(r.fn)]
    /\ files[DirOf(r.fn)][clip_name(j)] = Whole(r.clips[j + 1])

\* ----------------------------------------------------------------- C1
ExpectedMarkClips(r) ==
  NPieces(r.text)
    + (IF Less(LargestMark(r.text), video_duration(r.video_path))
       THEN 1 ELSE 0)

\* C1: a split at marks that runs to the end writes len(marks)+1 clips when
\* the largest mark is strictly before the end of the video, and len(marks)
\* clips otherwise (a largest mark equal to the duration gives no trailing
\* clip); the clip list it builds has that length from the moment it is built.
C1_ClipCount ==
  LET r == proc[1]
  IN r.fn = "split_video_at_marks" =>
       /\ Built(r) => Len(r.clips) = ExpectedMarkClips(r)
       /\ r.pc = "returned" =>
            /\ r.i = ExpectedMarkClips(r)
            /\ HoldsClips(r, ExpectedMarkClips(r))

\* A run on the 2 s video whose largest mark is exactly 2: two marks, two
\* clips written, no trailing clip.
C1_Witness ==
  LET r == proc[1]
  IN /\ r.fn = "split_video_at_marks" /\ r.pc = "returned"
     /\ r.video_path = "b.mp4" /\ r.text = <<"1", ",", "2">>
     /\ r.i = 2 /\ clip_name(1) \in DOMAIN files[marks_dir]
     /\ clip_name(2) \notin DOMAIN files[marks_dir]

\* ----------------------------------------------------------------- C2
RECURSIVE Join(_)
Join(pieces) ==
  IF Len(pieces) = 1 THEN pieces[1]
  ELSE pieces[1] \o <<",">> \o Join(Tail(pieces))

\* The texts that name the same marks in another order.
Reorderings(text) ==
  {Join([k \in 1..NPieces(text) |-> Piece(text, f[k])]) :
     f \in Permutations(1..NPieces(text))}

\* What the handler builds for a video and a valid marks text.
ClipsAtMarks(path, text) ==
  LET toks == ParsedTokens(text)
      ms == MarksOrder([k \in 1..Len(toks) |-> toks[k].val])
  IN MarkClips(path, ms, Zero) \o LastClip(path, ms[Len(ms)])

\* C2: the clips follow the marks in ascending order: the first starts at 0,
\* the i-th ends at the i-th smallest mark, each later one starts where the
\* one before it ended, and clip i is written as clip_i; a text naming the
\* same marks in another order gives the same clips; and the 90 s video
\* with marks "10,30,60" gives [0,10) [10,30) [30,60) [60,90).
C2_SortedSegments ==
  LET r == proc[1]
  IN r.fn = "split_video_at_marks" /\ Built(r) =>
       /\ r.clips[1].t_start = Zero
       /\ \A i \in 1..NPieces(r.text) :
            r.clips[i].t_end = IthSmallest(r.text, i)
       /\ \A i \in 2..Len(r.clips) : r.clips[i].t_start = r.clips[i - 1].t_end
       /\ \A i \in 1..Len(r.clips) : r.clips[i].src = r.video_path
       /\ \A t \in Reorderings(r.text) : ClipsAtMarks(r.video_path, t) = r.clips
       /\ r.pc = "returned" => HoldsClips(r, Len(r.clips))
       /\ r.video_path = "c.mp4" /\ r.text = T_10_30_60 =>
            r.clips = <<subclip("c.mp4", Num(0), Num(10)),
                        subclip("c.mp4", Num(10), Num(30)),
                        subclip("c.mp4", Num(30), Num(60)),
                        subclip("c.mp4", Num(60), Num(90))>>

\* Marks typed as "30,10" on the 90 s video: the run returns having written
\* [0,10) [10,30) [30,90) as clip_0, clip_1, clip_2.
C2_Witness ==
  LET r == proc[1]
  IN /\ r.fn = "split_video_at_marks" /\ r.pc = "returned"
     /\ r.video_path = "c.mp4" /\ r.text = T_30_10
     /\ files[marks_dir][clip_name(0)] = Whole(subclip("c.mp4", Num(0), Num(10)))
     /\ files[marks_dir][clip_name(1)] = Whole(subclip("c.mp4", Num(10), Num(30)))
     /\ files[marks_dir][clip_name(2)] = Whole(subclip("c.mp4", Num(30), Num(90)))

\* ----------------------------------------------------------------- C3
\* ceil(L / d) for d > 0: the least n with n * d >= L, counted up from
\* `n` with `acc` = n * d, exactly; 0 for an infinite d.
RECURSIVE CeilFrom(_, _, _, _)
CeilFrom(L, d, acc, n) ==
  IF AtMost(L, acc) THEN n ELSE CeilFrom(L, d, ExactSum(acc, d), n + 1)

CeilDiv(L, d) == IF d.kind = "inf" THEN 0 ELSE CeilFrom(L, d, Zero, 0)

RECURSIVE SumLengths(_)
SumLengths(cs) ==
  IF cs = <<>> THEN Zero ELSE ExactSum(Length(Head(cs)), SumLengths(Tail(cs)))

\* C3: for a duration d > 0 and a video of length L the split by duration
\* builds and writes ceil(L/d) clips, contiguous from 0 to L: each but the
\* last has length d, the last is cut at L, the lengths add up to L; the
\* 100 s video with duration "40" gives [0,40) [40,80) [80,100).
C3_DurationSegments ==
  LET r == proc[1]
      L == video_duration(r.video_path)
      d == r.duration
      n == CeilDiv(L, d)
  IN r.fn = "split_video_by_duration" /\ Built(r) /\ Less(Zero, d) =>
       /\ Len(r.clips) = n
       /\ r.clips[1].t_start = Zero
       /\ r.clips[n].t_end = L
       /\ \A i \in 2..n : r.clips[i].t_start = r.clips[i - 1].t_end
       /\ \A i \in 1..(n - 1) : Length(r.clips[i]) = d
       /\ Less(Zero, Length(r.clips[n])) /\ AtMost(Length(r.clips[n]), d)
       /\ SumLengths(r.clips) = L
       /\ r.pc = "returned" => r.i = n /\ HoldsClips(r, n)
       /\ r.video_path = "d.mp4" /\ r.text = T_40 =>
            r.clips = <<subclip("d.mp4", Num(0), Num(40)),
                        subclip("d.mp4", Num(40), Num(80)),
                        subclip("d.mp4", Num(80), Num(100))>>

\* ----------------------------------------------------------------- C4
\* An input the handlers are to reject: no video, no text, a piece of the
\* marks text (or the duration text) that is not a number, no files.
InvalidInput(r) ==
  CASE r.fn = "split_video_at_marks" ->
         \/ r.video_path = "" \/ r.text = <<>>
         \/ \E k \in 1..NPieces(r.text) : ~IsNumber(Piece(r.text, k))
    [] r.fn = "split_video_by_duration" ->
         r.video_path = "" \/ r.text = <<>> \/ ~IsNumber(r.text)
    [] r.fn = "merge_videos" -> r.video_paths = <<>>
    [] OTHER -> FALSE

\* The filesystem and the open handles are as the earlier session left them.
Untouched ==
  \E e \in Earlier :
    /\ proc[2] = e.other /\ dirs = e.dirs /\ files = e.files
    /\ merged = e.merged /\ handles = e.handles

\* C4: an invocation whose input fails validation ends in the input error
\* (and only such an invocation does), before any video is opened, with no
\* directory created and no file written or overwritten, and returns nothing.
C4_InvalidInputNoEffect ==
  LET r == proc[1]
  IN /\ InvalidInput(r) /\ r.pc # "called" => r.pc = "error"
     /\ r.pc = "error" => InvalidInput(r) /\ Untouched /\ r.out = {}
     /\ r.pc = "called" => Untouched

\* A marks text with a non-numeric piece, rejected on a used filesystem.
C4_Witness ==
  LET r == proc[1]
  IN /\ r.pc = "error" /\ r.fn = "split_video_at_marks"
     /\ r.video_path = "a.mp4" /\ r.text = <<"1", ",", "x">>
     /\ dirs = OutputDirs /\ merged # <<>>

\* ----------------------------------------------------------------- C5
RECURSIVE TotalLength(_)
TotalLength(paths) ==
  IF paths = <<>> THEN Zero
  ELSE ExactSum(video_duration(Head(paths)), TotalLength(Tail(paths)))

\* C5: a merge of a non-empty list (one file is enough) is never rejected,
\* and when it returns, merged_video.mp4 holds, in place of whatever it held
\* before, the inputs end to end in the order supplied, as long as the sum of
\* their durations, and the handler returns that fixed path.
C5_MergeInOrder ==
  LET r == proc[1]
  IN r.fn = "merge_videos" =>
       /\ r.video_paths # <<>> => r.pc # "error"
       /\ r.pc = "returned" =>
            /\ merged = <<Whole([parts |-> r.video_paths,
                                 duration |-> TotalLength(r.video_paths)])>>
            /\ r.out = {output_path}

\* a.mp4 then b.mp4 merged over an earlier merge result: 3 s + 2 s.
C5_Witness ==
  LET r == proc[1]
  IN /\ r.fn = "merge_videos" /\ r.pc = "returned"
     /\ r.video_paths = <<"a.mp4", "b.mp4">>
     /\ proc[2].pc = "returned"
     /\ merged[1].data.parts = <<"a.mp4", "b.mp4">>
     /\ merged[1].data.duration = Num(5)

\* ----------------------------------------------------------------- C6
ClipPaths(dir, n) == {<<dir, clip_name(j)>> : j \in 0..(n - 1)}

\* C6: a split directory exists once anything was written to it and is never
\* cleared: it holds exactly clip_0 .. clip_{M-1}, M being the most clips any
\* one run has written there so far; the listing a run returns holds its own
\* clip_0 .. clip_{n-1} and every other clip file present, so it is
\* clip_0 .. clip_{m-1} for some m from n up to M.
C6_ClipsAccumulate ==
  /\ \A d \in OutputDirs :
       /\ DOMAIN files[d] = {clip_name(j) : j \in 0..(written[d] - 1)}
       /\ written[d] > 0 => d \in dirs
  /\ \A p \in Procs :
       proc[p].fn \in Splitters /\ proc[p].pc = "returned" =>
         /\ proc[p].i = Len(proc[p].clips)
         /\ \E m \in Len(proc[p].clips)..written[DirOf(proc[p].fn)] :
              proc[p].out = ClipPaths(DirOf(proc[p].fn), m)

\* One session ran two splits at marks, the second with fewer segments: the
\* listing it got back has three clips though it wrote two.
C6_Witness ==
  /\ proc[2].pc = "idle"
  /\ proc[1].pc = "returned" /\ proc[1].fn = "split_video_at_marks"
  /\ Len(proc[1].clips) = 2
  /\ proc[1].out = ClipPaths(marks_dir, 3)
  /\ files[marks_dir][clip_name(2)].data # proc[1].clips[2]

\* ----------------------------------------------------------------- C7
\* C7: nothing coordinates the handlers.  No invocation ever waits for
\* another on the output paths: one that is about to make its directory or
\* inside a write can take its next step whatever the other is doing,
\* inside a write of the same path included.  A write that
\* returns leaves the writer's own clip at its path, whoever wrote the file
\* before (whole, unless another write of that path overlapped it), and the
\* other files as they were; the listing a split returns names every file
\* of the directory, whoever wrote it.
C7_LastWriterWins ==
  [][\A p \in Procs :
       /\ proc[p].pc \in {"makedirs", "write"} => ENABLED Step(p)
       /\ proc[p].pc = "write" /\ proc[p].fn \in Splitters
          /\ proc'[p].pc = "write" /\ proc'[p].i = proc[p].i + 1
          => LET d == DirOf(proc[p].fn)
                 nm == clip_name(proc[p].i)
             IN /\ files'[d][nm].data = proc[p].clips[proc[p].i + 1]
                /\ files'[d][nm].state \in {"whole", "interleaved"}
                /\ ~proc[p].raced => files'[d][nm].state = "whole"
                /\ \A f \in DOMAIN files[d] \ {nm} :
                     f \in DOMAIN files'[d] /\ files'[d][f] = files[d][f]
                /\ merged' = merged
       /\ proc[p].pc = "write" /\ proc[p].fn \in Splitters
          /\ proc'[p].pc = "returned"
          => /\ proc'[p].out = {<<DirOf(proc[p].fn), f>> :
                                  f \in DOMAIN files[DirOf(proc[p].fn)]}
             /\ files' = files /\ merged' = merged
       /\ proc[p].pc = "write" /\ proc[p].fn = "merge_videos"
          /\ proc'[p].pc = "returned"
          => /\ Len(merged') = 1
             /\ merged'[1].data = proc[p].clips[1]
             /\ merged'[1].state \in {"whole", "interleaved"}
             /\ ~proc[p].raced => merged'[1].state = "whole"
             /\ files' = files]_vars

\* Only two clicks were made, splits at marks of different videos, and
\* their writes interleaved: session 2 wrote clip_0 before session 1 did
\* and clip_1 after, and is not back yet.  clip_0 holds session 1's clip,
\* clip_1 and clip_2 session 2's, and the listing returned to session 1,
\* whose run made two clips, names clip_2.
C7_Witness ==
  /\ ncalls = 2
  /\ proc[1].fn = "split_video_at_marks" /\ proc[1].pc = "returned"
  /\ proc[2].fn = "split_video_at_marks" /\ proc[2].pc = "write"
  /\ proc[1].video_path # proc[2].video_path
  /\ Len(proc[1].clips) = 2 /\ Len(proc[2].clips) = 3
  /\ DOMAIN files[marks_dir] = {clip_name(0), clip_name(1), clip_name(2)}
  /\ files[marks_dir][clip_name(0)].data = proc[1].clips[1]
  /\ files[marks_dir][clip_name(1)].data = proc[2].clips[2]
  /\ files[marks_dir][clip_name(2)].data = proc[2].clips[3]
  /\ <<marks_dir, clip_name(2)>> \in proc[1].out

\* ----------------------------------------------------------------- C8
\* C8: when the library fails in a split, opening the video or writing clip
\* i, the handler is over: it returns no listing, takes no further step (no
\* retry), and the clips 0 .. i-1 the run wrote are on disk as written;
\* a failure on opening leaves the filesystem as it was.
C8_CrashKeepsPartialOutput ==
  LET r == proc[1]
  IN r.fn \in Splitters /\ r.pc = "crashed" =>
       /\ r.out = {}
       /\ ~ENABLED NextOnce
       /\ HoldsClips(r, r.i)
       /\ r.clips = <<>> => Untouched
       /\ \E e \in Earlier :
            \A f \in DOMAIN e.files[DirOf(r.fn)] :
              f \notin {clip_name(j) : j \in 0..r.i} =>
                /\ f \in DOMAIN files[DirOf(r.fn)]
                /\ files[DirOf(r.fn)][f] = e.files[DirOf(r.fn)][f]

\* A three-clip split on a fresh filesystem fails writing clip 2: clip_0 and
\* clip_1 are on disk.
C8_Witness ==
  LET r == proc[1]
  IN /\ r.fn = "split_video_at_marks" /\ r.pc = "crashed"
     /\ Len(r.clips) = 3 /\ r.i = 2
     /\ written[duration_dir] = 0
     /\ DOMAIN files[marks_dir] = {clip_name(0), clip_name(1)}

\* ----------------------------------------------------------------- C9
\* C9: once a handler invocation has exited (returned, rejected its input,
\* or failed in the library) no video handle it opened is still open.
C9_HandlesReleased ==
  \A p \in Procs : proc[p].pc \in Exited => \A h \in handles : h[1] # p

\* ---------------------------------------------------------------- C10
\* C10: the loop is left only with a duration d > 0; a
\* duration d <= 0 is accepted by the validation, and then the start never
\* reaches the length of the video, the loop is never left, no clip is
\* written and nothing is returned.
C10_LoopTerminatesIffPositive ==
  LET r == proc[1]
  IN r.fn = "split_video_by_duration" =>
       /\ Built(r) => Less(Zero, r.duration)
       /\ AtMost(r.duration, Zero) /\ r.pc \notin {"called", "error"} =>
            /\ r.pc \in {"open", "loop", "crashed"}
            /\ AtMost(r.start, Zero)
            /\ Less(r.start, video_duration(r.video_path))
            /\ \E e \in Earlier :
                 dirs = e.dirs /\ files = e.files /\ merged = e.merged
            /\ r.out = {}

=============================================================================
